---- MODULE Spec2Model ----
(***************************************************************************)
(* SolSentry: the analysis entry points as state machines.                 *)
(*   performSecurityChecks          (On-Chain Heuristics)    -> Spec       *)
(*   performSocialSentimentAnalysis (Social sentiment)       -> SpecSocial *)
(*   performTokenomicsAnalysis      (Tokenomics)         -> SpecTokenomics *)
(* A run awaits its providers one after another; one action models one     *)
(* numbered section of the function, from the await that opens it to the   *)
(* last statement before the next await.  A run ends at pc = "returned"    *)
(* with its report, or at pc = "thrown" with the exception that no handler *)
(* of the function catches.                                                *)
(***************************************************************************)
EXTENDS Integers, Sequences, FiniteSets, TLC

VARIABLES
    pc,            \* the section the run is about to execute, or how it ended
    tokenAddress,  \* the argument: "valid" or "invalid" base58 public key
    report,        \* the report object under construction
    tokenMeta,     \* const tokenMeta (Null until its await resolves)
    pairs,         \* const pairs (empty until its await resolves)
    topHolders,    \* const topHolders (empty until its await resolves)
    recentTx,      \* const recentTx (empty until its await resolves)
    apiKeys,       \* the argument of the social analysis: which keys are set
    lcData,        \* const lcData (Null until its await resolves)
    sanData,       \* const sanData (empty until its await resolves)
    twitterData,   \* const twitterData (Null until its await resolves)
    knownVestingWallets,  \* argument of the tokenomics analysis
    birdeyeApiKey,        \* argument of the tokenomics analysis: '' or a key
    birdeyeData,   \* const birdeyeData (Null until its await resolves)
    calls,         \* the provider calls issued so far, with how each ended
    exception      \* the exception that ended the run, "none" while there is none

securityVars == <<tokenAddress, tokenMeta, pairs, topHolders, recentTx>>
socialVars == <<apiKeys, lcData, sanData, twitterData>>
tokenomicsVars == <<knownVestingWallets, birdeyeApiKey, birdeyeData>>
vars == <<pc, report, securityVars, socialVars, tokenomicsVars, calls, exception>>

(***************************************************************************)
(* Bounds of the model.                                                    *)
(***************************************************************************)
MaxPairs == 2
MaxHolders == 2
MaxTx == 3
MaxSanPoints == 2
MaxTweets == 7

(***************************************************************************)
(* JavaScript values.  An object is a function from its own keys; a key    *)
(* that is missing is undefined.  null is an object of its own.            *)
(***************************************************************************)
EmptyObject == [k \in {} |-> TRUE]
Null == [null |-> TRUE]

Has(obj, key) == key \in DOMAIN obj
\* obj.key = val
SetProp(obj, key, val) ==
    [k \in DOMAIN obj \cup {key} |-> IF k = key THEN val ELSE obj[k]]
\* an object literal with an optional key: opt is <<>> or <<value>>
WithOpt(obj, key, opt) == IF Len(opt) = 0 THEN obj ELSE SetProp(obj, key, opt[1])

Min(a, b) == IF a < b THEN a ELSE b

SeqsUpTo(S, n) == UNION {[1..k -> S] : k \in 0..n}
RECURSIVE SumSeq(_)
SumSeq(s) == IF s = <<>> THEN 0 ELSE Head(s) + SumSeq(Tail(s))
Count(s, x) == Cardinality({i \in DOMAIN s : s[i] = x})

\* what an awaited provider call can do: reject, or resolve with a body
\* whose payload field is missing or present
Rejected == [rejected |-> TRUE]
NoPayload == EmptyObject
Payload(x) == [payload |-> x]
Responses(S) == {Rejected, NoPayload} \cup {Payload(x) : x \in S}

(***************************************************************************)
(* Heuristic thresholds and score deltas of performSecurityChecks.         *)
(***************************************************************************)
MintDelta == 30
FreezeDelta == 20
CreatorShareLimit == 10
CreatorDelta == 15
TinyLpLimit == 20000
TinyLpDelta == 25
LpMintRiskDelta == 10
NoLiquidityDelta == 30
HighConcentrationLimit == 50
HighConcentrationDelta == 25
ModerateConcentrationLimit == 20
ModerateConcentrationDelta == 10
SellAmount == 1000000
DumpAmount == 10000000
DumpLimit == 2
DumpDelta == 20
ScoreCap == 100

FlagMint == "Mint authority active"
FlagFreeze == "Freeze authority active"
FlagCreator == "Creator holds >10% share"
FlagTinyLp == "Tiny LP (<$20k)"
FlagLpMintRisk == "Potential LP risk due to active mint"
FlagNoLiquidity == "No liquidity pools detected"
FlagHigh == "High concentration (>50% in top 10)"
FlagModerate == "Moderate concentration (>20% in top 10)"
FlagDumps == "Recent large dumps detected"

MintActiveText == "Active (Risk: Can mint more tokens)"
FreezeActiveText == "Active (Risk: Can freeze tokens)"
RenouncedText == "Renounced (Safe)"
\* String.prototype.includes('Active') on the texts the report can hold
IncludesActive(s) ==
    s \in {MintActiveText, FreezeActiveText,
           "Active (Risk: Unlimited supply possible)",
           "Active (Risk: Can freeze accounts)"}

(***************************************************************************)
(* What the providers can answer.                                          *)
(***************************************************************************)
\* getMint: rejects, or a mint account with its two optional authorities
MintInfos == [mintAuthority : BOOLEAN, freezeAuthority : BOOLEAN]
MintResponses == {Rejected} \cup MintInfos

\* Solscan token/meta: a meta object, its creator and its supply optional
Creators == [share : {CreatorShareLimit, CreatorShareLimit + 1}]
Supplies == {1000, 2000}
Opt(S) == {<<>>} \cup {<<x>> : x \in S}
Metas == {WithOpt(WithOpt([name |-> "token"], "creator", c), "supply", s) :
             c \in Opt(Creators), s \in Opt(Supplies)}
MetaResponses == Responses(Metas)

\* DEXScreener: a list of pairs, the liquidity of a pair optional
Liquidities == {TinyLpLimit - 1, TinyLpLimit}
Pairs == {WithOpt([dexId |-> "dex"], "liquidityUsd", l) : l \in Opt(Liquidities)}
PairResponses == Responses(SeqsUpTo(Pairs, MaxPairs))

\* Solscan token/holders: the holders, largest first (the code only sums over
\* them, so the order of a list does not change what it computes)
Amounts == {255, 400, 600}
Holders == [amount : Amounts]
Descending(s) == \A i \in 1..(Len(s) - 1) : s[i].amount >= s[i + 1].amount
HolderResponses ==
    Responses({s \in SeqsUpTo(Holders, MaxHolders) : Descending(s)})

\* Solscan token/txns: a list of transactions
Txs == {[type |-> "transfer", amount |-> DumpAmount + 1],
        [type |-> "transfer", amount |-> DumpAmount],
        [type |-> "burn", amount |-> DumpAmount + 1]}
TxResponses == Responses(SeqsUpTo(Txs, MaxTx))

(***************************************************************************)
(* The helpers: each catches its provider's failure and returns a default. *)
(***************************************************************************)
\* response.data.data || null
getTokenMeta(resp) == IF Has(resp, "payload") THEN resp.payload ELSE Null
\* response.data.data || []
getTopHolders(resp) == IF Has(resp, "payload") THEN resp.payload ELSE <<>>
\* response.data.pairs || []
getDexPairs(resp) == IF Has(resp, "payload") THEN resp.payload ELSE <<>>
\* response.data.data || []
getRecentTransactions(resp) == IF Has(resp, "payload") THEN resp.payload ELSE <<>>

Outcome(resp) == IF resp = Rejected THEN "error" ELSE "ok"
Call(provider, resp) == [provider |-> provider, outcome |-> Outcome(resp)]

\* the push without the += that goes with it
AddFlagOnly(r, flag, delta) == [r EXCEPT !.flags = Append(@, flag)]

\* report.flags.push(flag); report.riskScore += delta
AddFlag(r, flag, delta) ==
    [r EXCEPT !.flags = Append(@, flag), !.riskScore = @ + delta]
AddFlagIf(cond, r, flag, delta) == IF cond THEN AddFlag(r, flag, delta) ELSE r

(***************************************************************************)
(* performSecurityChecks                                                   *)
(***************************************************************************)
NewReport ==
    [authorities |-> EmptyObject,
     adminKeys |-> EmptyObject,
     lpHealth |-> EmptyObject,
     tokenDistribution |-> EmptyObject,
     transactionPatterns |-> EmptyObject,
     riskScore |-> 0,
     flags |-> <<>>]

Init ==
    /\ pc = "authorities"
    /\ tokenAddress \in {"valid", "invalid"}
    /\ report = NewReport
    /\ tokenMeta = Null
    /\ pairs = <<>>
    /\ topHolders = <<>>
    /\ recentTx = <<>>
    /\ apiKeys = EmptyObject
    /\ lcData = Null
    /\ sanData = <<>>
    /\ twitterData = Null
    /\ knownVestingWallets = <<>>
    /\ birdeyeApiKey = ""
    /\ birdeyeData = Null
    /\ calls = <<>>
    /\ exception = "none"

\* 1. Mint/Freeze authorities: new PublicKey throws on an invalid address
\* before getMint is called; getMint rejects on a provider failure; both land
\* in the catch
\* the two authority rules in the other order
AuthoritiesOkFreezeFirst(mintInfo) ==
    LET r0 == [report EXCEPT !.authorities =
                  [mintAuthority |-> IF mintInfo.mintAuthority
                                     THEN MintActiveText ELSE RenouncedText,
                   freezeAuthority |-> IF mintInfo.freezeAuthority
                                       THEN FreezeActiveText ELSE RenouncedText]]
        r1 == AddFlagIf(mintInfo.freezeAuthority, r0, FlagFreeze, FreezeDelta)
    IN  AddFlagIf(mintInfo.mintAuthority, r1, FlagMint, MintDelta)

AuthoritiesOk(mintInfo) ==
    LET r0 == [report EXCEPT !.authorities =
                  [mintAuthority |-> IF mintInfo.mintAuthority
                                     THEN MintActiveText ELSE RenouncedText,
                   freezeAuthority |-> IF mintInfo.freezeAuthority
                                       THEN FreezeActiveText ELSE RenouncedText]]
        r1 == AddFlagIf(mintInfo.mintAuthority, r0, FlagMint, MintDelta)
    IN  AddFlagIf(mintInfo.freezeAuthority, r1, FlagFreeze, FreezeDelta)

AuthoritiesCatch ==
    [report EXCEPT !.authorities =
        SetProp(@, "error", "Failed to fetch on-chain mint info")]

Authorities ==
    /\ pc = "authorities"
    /\ \/ /\ tokenAddress = "invalid"
          /\ report' = AuthoritiesCatch
          /\ calls' = calls
       \/ /\ tokenAddress = "valid"
          /\ \E resp \in MintResponses :
                /\ calls' = Append(calls, Call("getMint", resp))
                /\ report' = IF resp = Rejected
                             THEN AuthoritiesCatch ELSE AuthoritiesOk(resp)
    /\ pc' = "adminKeys"
    /\ UNCHANGED <<tokenAddress, tokenMeta, pairs, topHolders, recentTx, exception, socialVars, tokenomicsVars>>

\* 2. Admin/owner keys
AdminKeysReport(meta) ==
    IF meta # Null
    THEN LET r0 == [report EXCEPT !.adminKeys =
                       [creator |-> IF Has(meta, "creator")
                                    THEN meta.creator ELSE [text |-> "Unknown"],
                        note |-> "manual review recommended"]]
         IN  AddFlagIf(Has(meta, "creator")
                         /\ meta.creator.share > CreatorShareLimit,
                       r0, FlagCreator, CreatorDelta)
    ELSE [report EXCEPT !.adminKeys =
             SetProp(@, "error", "Failed to fetch token meta")]

AdminKeys ==
    /\ pc = "adminKeys"
    /\ \E resp \in MetaResponses :
          /\ calls' = Append(calls, Call("getTokenMeta", resp))
          /\ tokenMeta' = getTokenMeta(resp)
          /\ report' = AdminKeysReport(getTokenMeta(resp))
    /\ pc' = "lpHealth"
    /\ UNCHANGED <<tokenAddress, pairs, topHolders, recentTx, exception, socialVars, tokenomicsVars>>

\* 3. Liquidity pool health
\* pairs.reduce((prev, curr) => curr.liquidity?.usd > prev.liquidity?.usd ? curr : prev, pairs[0]):
\* a comparison with a missing liquidity is false and keeps prev
LiquidityGt(curr, prev) ==
    /\ Has(curr, "liquidityUsd")
    /\ Has(prev, "liquidityUsd")
    /\ curr.liquidityUsd > prev.liquidityUsd

RECURSIVE Reduce(_, _)
Reduce(ps, prev) ==
    IF ps = <<>> THEN prev
    ELSE Reduce(Tail(ps), IF LiquidityGt(Head(ps), prev) THEN Head(ps) ELSE prev)

MainPair(ps) == Reduce(ps, ps[1])

\* mainPair.liquidity?.usd || 0
LiquidityUSD(pair) == IF Has(pair, "liquidityUsd") THEN pair.liquidityUsd ELSE 0

\* the report once lpHealth is set and the Tiny LP rule has run
LpHealthFound(ps) ==
    LET mainPair == MainPair(ps)
        r0 == [report EXCEPT !.lpHealth =
                  [dex |-> mainPair.dexId,
                   liquidityUSD |-> LiquidityUSD(mainPair),
                   volume24h |-> 0,      \* mainPair.volume?.h24 || 0: no pair carries a volume
                   note |-> "LP lock status: Use manual check on Solscan"]]
    IN  AddFlagIf(r0.lpHealth.liquidityUSD < TinyLpLimit, r0, FlagTinyLp, TinyLpDelta)

\* the no-pairs branch with the delta of the Tiny LP rule
LpHealthNoneTinyDelta ==
    AddFlag([report EXCEPT !.lpHealth = SetProp(@, "error", "No DEX pairs found")],
            FlagNoLiquidity, TinyLpDelta)

LpHealthNone ==
    AddFlag([report EXCEPT !.lpHealth = SetProp(@, "error", "No DEX pairs found")],
            FlagNoLiquidity, NoLiquidityDelta)

LpHealth ==
    /\ pc = "lpHealth"
    /\ \E resp \in PairResponses :
          LET ps == getDexPairs(resp) IN
          /\ calls' = Append(calls, Call("getDexPairs", resp))
          /\ pairs' = ps
          /\ IF Len(ps) > 0
             THEN IF Has(report.authorities, "mintAuthority")
                  THEN /\ report' = AddFlagIf(
                                        IncludesActive(report.authorities.mintAuthority),
                                        LpHealthFound(ps), FlagLpMintRisk, LpMintRiskDelta)
                       /\ pc' = "tokenDistribution"
                       /\ exception' = exception
                  \* report.authorities.mintAuthority is undefined: .includes throws
                  ELSE /\ report' = LpHealthFound(ps)
                       /\ pc' = "thrown"
                       /\ exception' = "TypeError"
             ELSE /\ report' = LpHealthNone
                  /\ pc' = "tokenDistribution"
                  /\ exception' = exception
    /\ UNCHANGED <<tokenAddress, tokenMeta, topHolders, recentTx, socialVars, tokenomicsVars>>

\* 4. Token distribution
\* BigInt(tokenMeta?.supply || 0)
TotalSupply(meta) == IF meta # Null /\ Has(meta, "supply") THEN meta.supply ELSE 0

\* top10Percent += Number((balance * 100n) / totalSupply), holder by holder;
\* BigInt division truncates
RECURSIVE Top10Percent(_, _)
Top10Percent(hs, totalSupply) ==
    IF hs = <<>> THEN 0
    ELSE ((Head(hs).amount * 100) \div totalSupply) + Top10Percent(Tail(hs), totalSupply)

\* the two rules as two independent ifs
ConcentrationFlagsBoth(r, top10Percent) ==
    AddFlagIf(top10Percent > ModerateConcentrationLimit,
              AddFlagIf(top10Percent > HighConcentrationLimit,
                        r, FlagHigh, HighConcentrationDelta),
              FlagModerate, ModerateConcentrationDelta)

ConcentrationFlags(r, top10Percent) ==
    IF top10Percent > HighConcentrationLimit
    THEN AddFlag(r, FlagHigh, HighConcentrationDelta)
    ELSE IF top10Percent > ModerateConcentrationLimit
         THEN AddFlag(r, FlagModerate, ModerateConcentrationDelta)
         ELSE r

TokenDistributionFound(hs, totalSupply) ==
    LET top10Percent == Top10Percent(hs, totalSupply)
    IN  ConcentrationFlags(
            [report EXCEPT !.tokenDistribution =
                [top10HoldersPercent |-> top10Percent,
                 holderCount |-> "Unknown"]],   \* tokenMeta?.holder || 'Unknown': no meta carries holder
            top10Percent)

TokenDistribution ==
    /\ pc = "tokenDistribution"
    /\ \E resp \in HolderResponses :
          LET hs == getTopHolders(resp)
              totalSupply == TotalSupply(tokenMeta) IN
          /\ calls' = Append(calls, Call("getTopHolders", resp))
          /\ topHolders' = hs
          /\ IF Len(hs) > 0
             THEN IF totalSupply # 0
                  THEN /\ report' = TokenDistributionFound(hs, totalSupply)
                       /\ pc' = "transactionPatterns"
                       /\ exception' = exception
                  \* BigInt division by 0n throws at the first holder
                  ELSE /\ report' = report
                       /\ pc' = "thrown"
                       /\ exception' = "RangeError"
             ELSE /\ report' = [report EXCEPT !.tokenDistribution =
                                    SetProp(@, "error", "Failed to fetch holders")]
                  /\ pc' = "transactionPatterns"
                  /\ exception' = exception
    /\ UNCHANGED <<tokenAddress, tokenMeta, pairs, recentTx, socialVars, tokenomicsVars>>

\* 5. Transaction patterns
LargeDumps(txs) ==
    Cardinality({i \in DOMAIN txs :
        /\ txs[i].type = "transfer"
        /\ txs[i].amount > SellAmount
        /\ txs[i].amount > DumpAmount})

TransactionPatternsReport(txs) ==
    IF Len(txs) > 0
    THEN LET largeDumps == LargeDumps(txs)
             r0 == [report EXCEPT !.transactionPatterns =
                       [recentTxCount |-> Len(txs),
                        potentialDumps |-> largeDumps,
                        note |-> "Advanced: Analyze for bot patterns or unnatural spikes"]]
         IN  AddFlagIf(largeDumps > DumpLimit, r0, FlagDumps, DumpDelta)
    ELSE [report EXCEPT !.transactionPatterns =
             SetProp(@, "error", "Failed to fetch transactions")]

TransactionPatterns ==
    /\ pc = "transactionPatterns"
    /\ \E resp \in TxResponses :
          /\ calls' = Append(calls, Call("getRecentTransactions", resp))
          /\ recentTx' = getRecentTransactions(resp)
          /\ report' = TransactionPatternsReport(getRecentTransactions(resp))
    /\ pc' = "cap"
    /\ UNCHANGED <<tokenAddress, tokenMeta, pairs, topHolders, exception, socialVars, tokenomicsVars>>

\* Cap risk score at 100, and return the report
\* the score left as summed
CapScoreUncapped(score) == score

CapScore(score) == Min(score, ScoreCap)

Cap ==
    /\ pc = "cap"
    /\ report' = [report EXCEPT !.riskScore = CapScore(@)]
    /\ pc' = "returned"
    /\ UNCHANGED <<securityVars, socialVars, tokenomicsVars, calls, exception>>

Next ==
    \/ Authorities
    \/ AdminKeys
    \/ LpHealth
    \/ TokenDistribution
    \/ TransactionPatterns
    \/ Cap

Spec == Init /\ [][Next]_vars

(***************************************************************************)
(* performSocialSentimentAnalysis                                          *)
(***************************************************************************)
SocialVolumeLimit == 1000
\* sentiment_relative is a fraction of 1; the model counts it in hundredths
BearishLimit == 40
SantimentLimit == 0
BotDuplicatesLimit == 5
HypeTweetCount == 20
HypeAverageScore == 1

FlagBearish == "Bearish sentiment detected"
FlagNegativeWeighted == "Negative weighted sentiment in recent days"
FlagBots == "Potential bot activity detected"
NoteLunarCrushKey == "Provide LunarCrush API key for comprehensive sentiment analysis"
NoteSantiment == "Santiment data unavailable"
NoteTwitterKeys == "Provide Twitter API keys for X sentiment and engagement analysis"
NoteBots == "Telegram/Discord analytics: Integrate custom bots"
NoteCrossCheck == "Multiple risk flags - cross-check with on-chain data for authenticity"

LcDatas == [galaxy_score : {60},
            sentiment_relative : {BearishLimit - 1, BearishLimit},
            social_volume : {SocialVolumeLimit, SocialVolumeLimit + 1}]
LcResponses == Responses(SeqsUpTo(LcDatas, 1))

SanPoints == [value : {SantimentLimit - 1, SantimentLimit}]
SanResponses == Responses(SeqsUpTo(SanPoints, MaxSanPoints))

\* a tweet with the score the sentiment analyzer gives its text
Tweets == {[text |-> "to the moon", score |-> 3], [text |-> "rug", score |-> -1]}
TweetResponses == Responses(SeqsUpTo(Tweets, MaxTweets))

\* response.data.data[0] || null, null from the catch
getLunarCrushData(resp) ==
    IF Has(resp, "payload") /\ Len(resp.payload) > 0 THEN resp.payload[1] ELSE Null
\* response.data.data.getMetric.timeseriesData || [], [] from the catch
getSantimentSentiment(resp) == IF Has(resp, "payload") THEN resp.payload ELSE <<>>

\* tweets whose text an earlier tweet of the list already had
Duplicates(tweets) ==
    Cardinality({i \in DOMAIN tweets : \E j \in 1..(i - 1) : tweets[j].text = tweets[i].text})
TotalScore(tweets) == SumSeq([i \in DOMAIN tweets |-> tweets[i].score])
\* totalScore / tweets.length || 0, kept as an exact fraction
AverageScore(tweets) ==
    IF Len(tweets) = 0 \/ TotalScore(tweets) = 0
    THEN [num |-> 0, den |-> 1]
    ELSE [num |-> TotalScore(tweets), den |-> Len(tweets)]
ZeroTwitterData == [averageScore |-> [num |-> 0, den |-> 1], tweetCount |-> 0, potentialBots |-> 0]
\* a rejected search, or a result without data (forEach of undefined throws),
\* ends in the catch
getTwitterSentiment(resp) ==
    IF Has(resp, "payload")
    THEN [averageScore |-> AverageScore(resp.payload),
          tweetCount |-> Len(resp.payload),
          potentialBots |-> IF Duplicates(resp.payload) > BotDuplicatesLimit
                            THEN Duplicates(resp.payload) ELSE 0]
    ELSE ZeroTwitterData

NewSocialReport ==
    [sentiment |-> EmptyObject,
     community |-> EmptyObject,
     influencers |-> <<>>,
     hypeIndicators |-> EmptyObject,
     riskFlags |-> <<>>,
     notes |-> <<>>]

InitSocial ==
    /\ pc = "lunarCrush"
    /\ apiKeys \in [lunarCrush : BOOLEAN, twitter : BOOLEAN]
    /\ report = NewSocialReport
    /\ lcData = Null
    /\ sanData = <<>>
    /\ twitterData = Null
    /\ knownVestingWallets = <<>>
    /\ birdeyeApiKey = ""
    /\ birdeyeData = Null
    /\ calls = <<>>
    /\ exception = "none"
    /\ tokenAddress = "valid"
    /\ tokenMeta = Null
    /\ pairs = <<>>
    /\ topHolders = <<>>
    /\ recentTx = <<>>

PushIf(cond, list, x) == IF cond THEN Append(list, x) ELSE list

\* 1. LunarCrush (social_engagement_score and top_influencers are carried by
\* no lcData here: socialEngagement stays undefined and influencers stays [])
LunarCrushReport(lc) ==
    IF lc # Null
    THEN [report EXCEPT
            !.sentiment = SetProp(SetProp(@, "galaxyScore", lc.galaxy_score),
                                  "relativeSentiment", lc.sentiment_relative),
            !.community = SetProp(@, "socialVolume", lc.social_volume),
            !.hypeIndicators = IF lc.social_volume > SocialVolumeLimit
                               THEN SetProp(@, "highVolume", "High social mentions detected")
                               ELSE @,
            !.riskFlags = PushIf(lc.sentiment_relative < BearishLimit, @, FlagBearish)]
    ELSE report

LunarCrush ==
    /\ pc = "lunarCrush"
    /\ \/ /\ apiKeys.lunarCrush
          /\ \E resp \in LcResponses :
                /\ calls' = Append(calls, Call("getLunarCrushData", resp))
                /\ lcData' = getLunarCrushData(resp)
                /\ report' = LunarCrushReport(getLunarCrushData(resp))
       \/ /\ ~apiKeys.lunarCrush
          /\ report' = [report EXCEPT !.notes = Append(@, NoteLunarCrushKey)]
          /\ UNCHANGED <<calls, lcData>>
    /\ pc' = "santiment"
    /\ UNCHANGED <<securityVars, apiKeys, sanData, twitterData, exception, tokenomicsVars>>

\* 2. Santiment
SantimentReport(san) ==
    IF Len(san) > 0
    THEN LET recentSentiment == san[Len(san)].value IN
         [report EXCEPT
            !.sentiment = SetProp(SetProp(@, "santimentWeighted", recentSentiment),
                                  "santimentTrend", san),
            !.riskFlags = PushIf(recentSentiment < SantimentLimit, @, FlagNegativeWeighted)]
    ELSE [report EXCEPT !.notes = Append(@, NoteSantiment)]

Santiment ==
    /\ pc = "santiment"
    /\ \E resp \in SanResponses :
          /\ calls' = Append(calls, Call("getSantimentSentiment", resp))
          /\ sanData' = getSantimentSentiment(resp)
          /\ report' = SantimentReport(getSantimentSentiment(resp))
    /\ pc' = "twitter"
    /\ UNCHANGED <<securityVars, apiKeys, lcData, twitterData, exception, tokenomicsVars>>

\* 3. Twitter/X
TwitterReport(tw) ==
    [report EXCEPT
        !.sentiment = SetProp(@, "twitterAverage", tw.averageScore),
        !.community = SetProp(@, "tweetCount", tw.tweetCount),
        !.riskFlags = PushIf(tw.potentialBots > 0, @, FlagBots),
        !.hypeIndicators =
            IF /\ tw.tweetCount > HypeTweetCount
               /\ tw.averageScore.num > HypeAverageScore * tw.averageScore.den
            THEN SetProp(@, "twitterHype", "Positive Twitter sentiment with high engagement")
            ELSE @]

Twitter ==
    /\ pc = "twitter"
    /\ \/ /\ apiKeys.twitter
          /\ \E resp \in TweetResponses :
                /\ calls' = Append(calls, Call("getTwitterSentiment", resp))
                /\ twitterData' = getTwitterSentiment(resp)
                /\ report' = TwitterReport(getTwitterSentiment(resp))
       \/ /\ ~apiKeys.twitter
          /\ report' = [report EXCEPT !.notes = Append(@, NoteTwitterKeys)]
          /\ UNCHANGED <<calls, twitterData>>
    /\ pc' = "crossReference"
    /\ UNCHANGED <<securityVars, apiKeys, lcData, sanData, exception, tokenomicsVars>>

\* 4. Telegram & Discord note, cross-reference note, and return
CrossReference ==
    /\ pc = "crossReference"
    /\ report' = [report EXCEPT !.notes =
                     PushIf(Len(report.riskFlags) > 1, Append(@, NoteBots), NoteCrossCheck)]
    /\ pc' = "returned"
    /\ UNCHANGED <<securityVars, socialVars, tokenomicsVars, calls, exception>>

NextSocial ==
    \/ LunarCrush
    \/ Santiment
    \/ Twitter
    \/ CrossReference

SpecSocial == InitSocial /\ [][NextSocial]_vars

(***************************************************************************)
(* performTokenomicsAnalysis                                               *)
(***************************************************************************)
ShallowLimit == 50000
TopN == 10
HighRiskCount == 3
MediumRiskCount == 1

TokMintActiveText == "Active (Risk: Unlimited supply possible)"
TokMintRenouncedText == "Renounced (Fixed supply)"
TokFreezeActiveText == "Active (Risk: Can freeze accounts)"
RiskMint == "Mint authority active - potential for inflation"
RiskFreeze == "Freeze authority active - potential for account freezes"
RiskHighWhale == "High whale concentration (>50% in top 10 holders)"
RiskModerate == "Moderate concentration (>20% in top 10)"
RiskShallow == "Shallow liquidity (<$50k) - high volatility risk"
RiskUnlockedLp == "Unlocked LP - rug pull risk"
RiskNoLiquidity == "No liquidity detected - illiquid token"
RiskUnexpectedMints == "Unexpected mints detected despite renounced authority"
NoteCirculating == "Estimated circulating supply (excluding provided vesting wallets)"
NoteVestingWallets ==
    "Provide known vesting/treasury wallets for better circulating supply estimate"
NoteBirdeyeKey == "Provide Birdeye API key for LP lock and market data"
NoteBurns == "Deflationary mechanics detected via burns"
NoteMemecoin == "Token appears to be a memecoin (hype-driven, high risk)"
NoteUtility == "Token may have utility (verify use cases off-chain)"

\* a JS number: an exact fraction, NaN, or undefined
Frac(n, d) == [num |-> n, den |-> d]
NaN == [nan |-> TRUE]
UndefinedValue == [undefined |-> TRUE]
\* BigInt division truncates towards zero
TruncDiv(a, b) == IF a >= 0 THEN a \div b ELSE -((-a) \div b)

TokMintInfos ==
    [mintAuthority : BOOLEAN, freezeAuthority : BOOLEAN, decimals : {0, 1}, supply : {1000}]
TokMintResponses == {Rejected} \cup TokMintInfos

TokMetas == {WithOpt([name |-> n, decimals |-> 1], "supply", sup) :
                n \in {"token", "meme token"}, sup \in Opt({1000})}
TokMetaResponses == Responses(TokMetas)

TokHolders == {[owner |-> "team", amount |-> 600], [owner |-> "whale", amount |-> 255]}
TokHolderResponses ==
    Responses({hs \in SeqsUpTo(TokHolders, MaxHolders) : Descending(hs)})

TokLiquidities == {ShallowLimit - 1, ShallowLimit}
TokPairs == {WithOpt([dexId |-> "dex"], "liquidityUsd", l) : l \in Opt(TokLiquidities)}
TokPairResponses == Responses(SeqsUpTo(TokPairs, MaxPairs))

BirdeyeOverviews == [liquidity_locked : BOOLEAN, mc : {1000000}]
BirdeyeResponses == Responses(BirdeyeOverviews)

TokTxs == {[type |-> "burn", amount |-> 5], [type |-> "mint", amount |-> 5]}
TokTxResponses == Responses(SeqsUpTo(TokTxs, MaxTx))

\* response.data.data || null, null from the catch
getBirdeyeOverview(resp) == IF Has(resp, "payload") THEN resp.payload ELSE Null

NewTokenomicsReport ==
    [basicInfo |-> EmptyObject,
     supplyMetrics |-> EmptyObject,
     authorities |-> EmptyObject,
     distribution |-> EmptyObject,
     lpAnalysis |-> EmptyObject,
     burnAndMintActivity |-> EmptyObject,
     riskIndicators |-> <<>>,
     estimatedCirculatingSupply |-> Frac(0, 1),
     notes |-> <<>>]

InitTokenomics ==
    /\ pc = "basicInfo"
    /\ tokenAddress \in {"valid", "invalid"}
    /\ knownVestingWallets \in {<<>>, <<"team">>}
    /\ birdeyeApiKey \in {"", "key"}
    /\ report = NewTokenomicsReport
    /\ tokenMeta = Null
    /\ pairs = <<>>
    /\ topHolders = <<>>
    /\ recentTx = <<>>
    /\ birdeyeData = Null
    /\ apiKeys = EmptyObject
    /\ lcData = Null
    /\ sanData = <<>>
    /\ twitterData = Null
    /\ calls = <<>>
    /\ exception = "none"

\* 1. Basic info and authorities
BasicInfoOk(mintInfo) ==
    [report EXCEPT
        !.basicInfo = [decimals |-> mintInfo.decimals,
                       totalSupply |-> Frac(mintInfo.supply, 10 ^ mintInfo.decimals)],
        !.authorities =
            [mintAuthority |-> IF mintInfo.mintAuthority
                               THEN TokMintActiveText ELSE TokMintRenouncedText,
             freezeAuthority |-> IF mintInfo.freezeAuthority
                                 THEN TokFreezeActiveText ELSE RenouncedText],
        !.riskIndicators = PushIf(mintInfo.freezeAuthority,
                                  PushIf(mintInfo.mintAuthority, @, RiskMint),
                                  RiskFreeze)]

BasicInfoCatch ==
    [report EXCEPT !.basicInfo =
        SetProp(@, "error", "Failed to fetch on-chain mint info")]

BasicInfo ==
    /\ pc = "basicInfo"
    /\ \/ /\ tokenAddress = "invalid"
          /\ report' = BasicInfoCatch
          /\ calls' = calls
       \/ /\ tokenAddress = "valid"
          /\ \E resp \in TokMintResponses :
                /\ calls' = Append(calls, Call("getMint", resp))
                /\ report' = IF resp = Rejected
                             THEN BasicInfoCatch ELSE BasicInfoOk(resp)
    /\ pc' = "supplyMetrics"
    /\ UNCHANGED <<securityVars, socialVars, tokenomicsVars, exception>>

\* 2. Supply metrics
SupplyMetricsReport(meta) ==
    IF meta # Null
    THEN [report EXCEPT !.supplyMetrics =
            [totalSupply |-> IF Has(meta, "supply")
                             THEN Frac(meta.supply, 10 ^ meta.decimals) ELSE NaN]]
    ELSE [report EXCEPT !.supplyMetrics =
            SetProp(@, "error", "Failed to fetch token meta")]

SupplyMetrics ==
    /\ pc = "supplyMetrics"
    /\ \E resp \in TokMetaResponses :
          /\ calls' = Append(calls, Call("getTokenMeta", resp))
          /\ tokenMeta' = getTokenMeta(resp)
          /\ report' = SupplyMetricsReport(getTokenMeta(resp))
    /\ pc' = "distribution"
    /\ UNCHANGED <<tokenAddress, pairs, topHolders, recentTx, socialVars,
                   tokenomicsVars, exception>>

\* 3. Distribution and concentration
\* tokenMeta?.supply || report.basicInfo.totalSupply * Math.pow(10, report.basicInfo.decimals):
\* the number handed to BigInt, NaN when the chain reader failed too
SupplyNumber ==
    IF tokenMeta # Null /\ Has(tokenMeta, "supply") /\ tokenMeta.supply # 0
    THEN Frac(tokenMeta.supply, 1)
    ELSE IF Has(report.basicInfo, "totalSupply")
         THEN Frac((report.basicInfo.totalSupply.num * 10 ^ report.basicInfo.decimals)
                       \div report.basicInfo.totalSupply.den, 1)
         ELSE NaN

\* topHolders.slice(0, 10)
Slice(hs, n) == SubSeq(hs, 1, Min(Len(hs), n))

LockedAmount(hs) ==
    SumSeq([i \in DOMAIN hs |->
               IF \E w \in DOMAIN knownVestingWallets :
                      knownVestingWallets[w] = hs[i].owner
               THEN hs[i].amount ELSE 0])

\* the report once distribution is set and the concentration rules have run
DistributionFound(hs, totalSupply) ==
    LET top10Percent == Top10Percent(Slice(hs, TopN), totalSupply) IN
    [report EXCEPT
        !.distribution = [top10HoldersPercent |-> top10Percent],
        !.riskIndicators =
            IF top10Percent > HighConcentrationLimit
            THEN Append(@, RiskHighWhale)
            ELSE IF top10Percent > ModerateConcentrationLimit
                 THEN Append(@, RiskModerate)
                 ELSE @]

Distribution ==
    /\ pc = "distribution"
    /\ \E resp \in TokHolderResponses :
          LET hs == getTopHolders(resp) IN
          /\ calls' = Append(calls, Call("getTopHolders", resp))
          /\ topHolders' = hs
          /\ IF Len(hs) = 0
             THEN /\ report' = [report EXCEPT !.distribution =
                                    SetProp(@, "error", "Failed to fetch holders")]
                  /\ pc' = "lpAnalysis"
                  /\ exception' = exception
             \* BigInt(NaN) throws, and so does the division by 0n
             ELSE IF SupplyNumber = NaN \/ SupplyNumber = Frac(0, 1)
             THEN /\ report' = report
                  /\ pc' = "thrown"
                  /\ exception' = "RangeError"
             ELSE LET totalSupply == SupplyNumber.num
                      found == DistributionFound(hs, totalSupply) IN
                  IF Len(knownVestingWallets) > 0
                  THEN IF Has(report.basicInfo, "decimals")
                       THEN /\ report' =
                                 [found EXCEPT
                                    !.estimatedCirculatingSupply =
                                        Frac(TruncDiv(totalSupply - LockedAmount(hs),
                                                      10 ^ report.basicInfo.decimals), 1),
                                    !.notes = Append(@, NoteCirculating)]
                            /\ pc' = "lpAnalysis"
                            /\ exception' = exception
                       \* BigInt(Math.pow(10, undefined)) throws
                       ELSE /\ report' = found
                            /\ pc' = "thrown"
                            /\ exception' = "RangeError"
                  ELSE /\ report' =
                            [found EXCEPT
                               !.notes = Append(@, NoteVestingWallets),
                               !.estimatedCirculatingSupply =
                                   IF Has(report.supplyMetrics, "totalSupply")
                                   THEN report.supplyMetrics.totalSupply
                                   ELSE UndefinedValue]
                       /\ pc' = "lpAnalysis"
                       /\ exception' = exception
    /\ UNCHANGED <<tokenAddress, tokenMeta, pairs, recentTx, socialVars, tokenomicsVars>>

\* 4. LP analysis, up to the Birdeye call
LpAnalysisFound(ps) ==
    LET mainPair == MainPair(ps)
        r0 == [report EXCEPT !.lpAnalysis =
                  [dex |-> mainPair.dexId,
                   liquidityUSD |-> LiquidityUSD(mainPair),
                   lpLocked |-> "Unknown (Integrate Birdeye/RugCheck for lock status)"]]
    IN  [r0 EXCEPT !.riskIndicators =
            PushIf(r0.lpAnalysis.liquidityUSD < ShallowLimit, @, RiskShallow)]

LpAnalysisNone ==
    [report EXCEPT
        !.lpAnalysis = SetProp(@, "error", "No DEX pairs found"),
        !.riskIndicators = Append(@, RiskNoLiquidity)]

LpAnalysis ==
    /\ pc = "lpAnalysis"
    /\ \E resp \in TokPairResponses :
          LET ps == getDexPairs(resp) IN
          /\ calls' = Append(calls, Call("getDexPairs", resp))
          /\ pairs' = ps
          /\ IF Len(ps) > 0
             THEN IF birdeyeApiKey # ""
                  THEN /\ report' = LpAnalysisFound(ps)
                       /\ pc' = "birdeye"
                  ELSE /\ report' = [LpAnalysisFound(ps) EXCEPT
                                        !.notes = Append(@, NoteBirdeyeKey)]
                       /\ pc' = "burnAndMintActivity"
             ELSE /\ report' = LpAnalysisNone
                  /\ pc' = "burnAndMintActivity"
    /\ UNCHANGED <<tokenAddress, tokenMeta, topHolders, recentTx, socialVars,
                   tokenomicsVars, exception>>

\* 4, continued: the Birdeye overview, asked for with a key only
BirdeyeReport(data) ==
    IF data # Null
    THEN [report EXCEPT
            !.lpAnalysis.lpLocked = IF data.liquidity_locked
                                    THEN "Locked" ELSE "Unlocked (Risk)",
            !.riskIndicators = PushIf(~data.liquidity_locked, @, RiskUnlockedLp),
            !.supplyMetrics = SetProp(@, "marketCap", data.mc)]
    ELSE report

Birdeye ==
    /\ pc = "birdeye"
    /\ \E resp \in BirdeyeResponses :
          /\ calls' = Append(calls, Call("getBirdeyeOverview", resp))
          /\ birdeyeData' = getBirdeyeOverview(resp)
          /\ report' = BirdeyeReport(getBirdeyeOverview(resp))
    /\ pc' = "burnAndMintActivity"
    /\ UNCHANGED <<securityVars, socialVars, knownVestingWallets, birdeyeApiKey, exception>>

\* 5. Burn and mint activity, then the memecoin note, the risk level and return
TypeCount(txs, type) == Cardinality({i \in DOMAIN txs : txs[i].type = type})
BurnedAmount(txs) ==
    SumSeq([i \in DOMAIN txs |-> IF txs[i].type = "burn" THEN txs[i].amount ELSE 0])

BurnAndMintSet(txs) ==
    [report EXCEPT !.burnAndMintActivity =
        [recentBurns |-> TypeCount(txs, "burn"),
         burnedAmount |-> IF Has(report.basicInfo, "decimals")
                          THEN Frac(BurnedAmount(txs), 10 ^ report.basicInfo.decimals)
                          ELSE NaN,
         recentMints |-> TypeCount(txs, "mint")]]

BurnAndMintFlags(r, txs) ==
    [r EXCEPT
        !.riskIndicators =
            PushIf(TypeCount(txs, "mint") > 0
                     /\ ~IncludesActive(r.authorities.mintAuthority),
                   @, RiskUnexpectedMints),
        !.notes = PushIf(TypeCount(txs, "burn") > 0, @, NoteBurns)]

\* tokenMeta.name.toLowerCase().includes('meme'); no meta carries a description
IsMemecoin(meta) == meta # Null /\ meta.name \in {"meme token"}

RiskLevel(indicators) ==
    IF Len(indicators) > HighRiskCount THEN "High"
    ELSE IF Len(indicators) > MediumRiskCount THEN "Medium" ELSE "Low"

RiskSummary(r) ==
    LET r0 == [r EXCEPT !.notes =
                  Append(@, IF IsMemecoin(tokenMeta) THEN NoteMemecoin ELSE NoteUtility)]
    IN  SetProp(r0, "riskLevel", RiskLevel(r0.riskIndicators))

BurnAndMintActivity ==
    /\ pc = "burnAndMintActivity"
    /\ \E resp \in TokTxResponses :
          LET txs == getRecentTransactions(resp) IN
          /\ calls' = Append(calls, Call("getRecentTransactions", resp))
          /\ recentTx' = txs
          /\ IF Len(txs) = 0
             THEN /\ report' = RiskSummary(
                                  [report EXCEPT !.burnAndMintActivity =
                                      SetProp(@, "error", "Failed to fetch transactions")])
                  /\ pc' = "returned"
                  /\ exception' = exception
             \* report.authorities.mintAuthority is undefined: .includes throws
             ELSE IF TypeCount(txs, "mint") > 0 /\ ~Has(report.authorities, "mintAuthority")
             THEN /\ report' = BurnAndMintSet(txs)
                  /\ pc' = "thrown"
                  /\ exception' = "TypeError"
             ELSE /\ report' = RiskSummary(BurnAndMintFlags(BurnAndMintSet(txs), txs))
                  /\ pc' = "returned"
                  /\ exception' = exception
    /\ UNCHANGED <<tokenAddress, tokenMeta, pairs, topHolders, socialVars, tokenomicsVars>>

NextTokenomics ==
    \/ BasicInfo
    \/ SupplyMetrics
    \/ Distribution
    \/ LpAnalysis
    \/ Birdeye
    \/ BurnAndMintActivity

SpecTokenomics == InitTokenomics /\ [][NextTokenomics]_vars

(***************************************************************************)
(* Vocabulary of the properties.                                           *)
(***************************************************************************)
Returned == pc = "returned"
Thrown == pc = "thrown"
Called(provider) == \E i \in DOMAIN calls : calls[i].provider = provider
Failed(provider) ==
    \E i \in DOMAIN calls : calls[i].provider = provider /\ calls[i].outcome = "error"
Flagged(flag) == \E i \in DOMAIN report.flags : report.flags[i] = flag

\* the score delta the rule table ties to a flag
DeltaOf(flag) ==
    CASE flag = FlagMint -> MintDelta
      [] flag = FlagFreeze -> FreezeDelta
      [] flag = FlagCreator -> CreatorDelta
      [] flag = FlagTinyLp -> TinyLpDelta
      [] flag = FlagLpMintRisk -> LpMintRiskDelta
      [] flag = FlagNoLiquidity -> NoLiquidityDelta
      [] flag = FlagHigh -> HighConcentrationDelta
      [] flag = FlagModerate -> ModerateConcentrationDelta
      [] flag = FlagDumps -> DumpDelta
RECURSIVE FiredSum(_)
FiredSum(flags) == IF flags = <<>> THEN 0 ELSE DeltaOf(Head(flags)) + FiredSum(Tail(flags))

\* the flags whose rule reads what a provider delivers
FlagsOf(provider) ==
    CASE provider = "getMint" -> {FlagMint, FlagFreeze}
      [] provider = "getTokenMeta" -> {FlagCreator}
      [] provider = "getDexPairs" -> {FlagTinyLp, FlagLpMintRisk, FlagNoLiquidity}
      [] provider = "getTopHolders" -> {FlagHigh, FlagModerate}
      [] provider = "getRecentTransactions" -> {FlagDumps}

ChainReaderFailed == tokenAddress = "invalid" \/ Failed("getMint")

(***************************************************************************)
(* C1: the riskScore of a returned report is an integer in 0..100; it is   *)
(* 100 whenever the deltas of the fired rules sum to 100 or more, and 0    *)
(* whenever they sum to 0 or less.                                         *)
(***************************************************************************)
C1_RiskScoreClamped ==
    Returned =>
        /\ report.riskScore \in 0..100
        /\ (FiredSum(report.flags) >= 100 => report.riskScore = 100)
        /\ (FiredSum(report.flags) <= 0 => report.riskScore = 0)

C1_Witness == Returned /\ FiredSum(report.flags) > 100 /\ report.riskScore = 100

(***************************************************************************)
(* C2: when the chain reader fails the run still returns a report, whose   *)
(* authorities section has the error marker, which has neither authority   *)
(* flag, and whose liquidity, distribution and transaction sections are    *)
(* populated whenever their providers delivered something.                 *)
(***************************************************************************)
C2_ChainFailureIsolated ==
    ChainReaderFailed =>
        /\ ~Thrown
        /\ Returned =>
              /\ Has(report.authorities, "error")
              /\ ~Flagged(FlagMint) /\ ~Flagged(FlagFreeze)
              /\ (Len(pairs) > 0 => Has(report.lpHealth, "liquidityUSD"))
              /\ (Len(topHolders) > 0 =>
                     Has(report.tokenDistribution, "top10HoldersPercent"))
              /\ (Len(recentTx) > 0 =>
                     Has(report.transactionPatterns, "recentTxCount"))

(***************************************************************************)
(* C3: no flag is emitted for a rule whose provider call failed.           *)
(***************************************************************************)
C3_NoFlagOnFailedProvider ==
    \A i \in DOMAIN calls :
        calls[i].outcome = "error" =>
            \A flag \in FlagsOf(calls[i].provider) : ~Flagged(flag)

(***************************************************************************)
(* C4: with both authorities active and every other provider failing, the  *)
(* returned report has riskScore 50 and exactly the two authority flags,   *)
(* mint first.                                                             *)
(***************************************************************************)
C4_BothAuthoritiesOnly ==
    ( /\ Returned
      /\ Has(report.authorities, "mintAuthority")
      /\ report.authorities.mintAuthority = MintActiveText
      /\ report.authorities.freezeAuthority = FreezeActiveText
      /\ Failed("getTokenMeta") /\ Failed("getDexPairs")
      /\ Failed("getTopHolders") /\ Failed("getRecentTransactions") )
    => /\ report.riskScore = 50
       /\ report.flags = <<FlagMint, FlagFreeze>>

(***************************************************************************)
(* C5: when the holder list is not empty and the token meta delivered no   *)
(* supply, the run is not aborted, the distribution section carries the    *)
(* error marker and no concentration flag is emitted.                      *)
(***************************************************************************)
C5_MissingSupplyFailsClosed ==
    (Called("getTopHolders") /\ Len(topHolders) > 0 /\ TotalSupply(tokenMeta) = 0)
    => /\ ~Thrown
       /\ Has(report.tokenDistribution, "error")
       /\ ~Flagged(FlagHigh) /\ ~Flagged(FlagModerate)

(***************************************************************************)
(* C6: with holders listed and a supply above 0, the High concentration    *)
(* flag is present exactly when the listed holders together hold more than *)
(* 50% of the supply, and top10HoldersPercent is their share in percent.   *)
(***************************************************************************)
HeldAmount == SumSeq([i \in DOMAIN topHolders |-> topHolders[i].amount])

C6_HighConcentrationExact ==
    (Has(report.tokenDistribution, "top10HoldersPercent") /\ TotalSupply(tokenMeta) > 0)
    => /\ Flagged(FlagHigh) <=> HeldAmount * 100 > 50 * TotalSupply(tokenMeta)
       /\ report.tokenDistribution.top10HoldersPercent =
              (HeldAmount * 100) \div TotalSupply(tokenMeta)

(***************************************************************************)
(* C7: the two concentration flags never occur together: a share above 50  *)
(* gives the High flag alone (+25), a share in (20,50] the Moderate flag   *)
(* alone (+10), a share of 20 or less neither.                             *)
(***************************************************************************)
ConcentrationOutcome(share, flags, added) ==
    /\ share > 50 =>
          Count(flags, FlagHigh) = 1 /\ Count(flags, FlagModerate) = 0 /\ added = 25
    /\ (share > 20 /\ share <= 50) =>
          Count(flags, FlagHigh) = 0 /\ Count(flags, FlagModerate) = 1 /\ added = 10
    /\ share <= 20 =>
          Count(flags, FlagHigh) = 0 /\ Count(flags, FlagModerate) = 0 /\ added = 0

C7_ConcentrationExclusive ==
    /\ [](~(Flagged(FlagHigh) /\ Flagged(FlagModerate)))
    /\ [][(pc = "tokenDistribution" /\ pc' = "transactionPatterns") =>
            /\ Has(report'.tokenDistribution, "top10HoldersPercent") =>
                  ConcentrationOutcome(report'.tokenDistribution.top10HoldersPercent,
                                       report'.flags,
                                       report'.riskScore - report.riskScore)
            /\ Has(report'.tokenDistribution, "error") =>
                  ConcentrationOutcome(0, report'.flags,
                                       report'.riskScore - report.riskScore)]_vars

C7_Witness ==
    /\ Returned
    /\ Has(report.tokenDistribution, "top10HoldersPercent")
    /\ report.tokenDistribution.top10HoldersPercent = 50
    /\ Flagged(FlagModerate)

(***************************************************************************)
(* C8: when the DEX pair reader yields zero pairs, lpHealth carries the    *)
(* error marker, "No liquidity pools detected" is in flags exactly once    *)
(* with no other liquidity flag, and exactly 30 is added to the score.     *)
(***************************************************************************)
C8_NoLiquidityOnce ==
    /\ []((Called("getDexPairs") /\ Len(pairs) = 0) =>
            /\ Has(report.lpHealth, "error")
            /\ Count(report.flags, FlagNoLiquidity) = 1
            /\ ~Flagged(FlagTinyLp) /\ ~Flagged(FlagLpMintRisk))
    /\ [][(pc = "lpHealth" /\ Len(pairs') = 0) =>
            report'.riskScore = report.riskScore + 30]_vars

C8_Witness ==
    /\ Returned
    /\ Len(pairs) = 0
    /\ ~Failed("getDexPairs")
    /\ Flagged(FlagNoLiquidity)

(***************************************************************************)
(* C9: an invalid token address ends the run with a fatal error before any *)
(* provider call is issued.                                                *)
(***************************************************************************)
C9_InvalidAddressFailsFast ==
    tokenAddress = "invalid" => (calls = <<>> /\ ~Returned)

(***************************************************************************)
(* C10: in a returned report no section is left empty without an error     *)
(* marker when a provider that feeds it was engaged and delivered nothing: *)
(* here the sentiment and community sections after LunarCrush was called   *)
(* with a key and returned no data.                                        *)
(***************************************************************************)
SectionFilledOrMarked(section) == DOMAIN section # {}

C10_NoSectionSilentlyEmpty ==
    (Returned /\ Called("getLunarCrushData") /\ lcData = Null)
    => /\ SectionFilledOrMarked(report.sentiment)
       /\ SectionFilledOrMarked(report.community)

(***************************************************************************)
(* C11: the flags of a report stand in rule-declaration order: Mint        *)
(* authority, Freeze authority, Creator share, Tiny LP (then the LP risk   *)
(* of an active mint, which the code declares next), No liquidity, High or *)
(* Moderate concentration, Large dumps, whichever provider calls failed.   *)
(***************************************************************************)
RuleRank(flag) ==
    CASE flag = FlagMint -> 1
      [] flag = FlagFreeze -> 2
      [] flag = FlagCreator -> 3
      [] flag = FlagTinyLp -> 4
      [] flag = FlagLpMintRisk -> 5
      [] flag = FlagNoLiquidity -> 6
      [] flag = FlagHigh -> 7
      [] flag = FlagModerate -> 7
      [] flag = FlagDumps -> 8

C11_FlagsInRuleOrder ==
    \A i, j \in DOMAIN report.flags :
        i < j => RuleRank(report.flags[i]) < RuleRank(report.flags[j])

C11_Witness ==
    /\ Returned
    /\ report.flags = <<FlagMint, FlagFreeze, FlagCreator, FlagTinyLp,
                        FlagLpMintRisk, FlagHigh, FlagDumps>>

(***************************************************************************)
(* C12: a run without the key of an optional provider makes no call to     *)
(* that provider, records no risk indicator of it and carries the          *)
(* 'provide the key' note of it in the notes of the report it returns,     *)
(* whatever the other providers answered. Stated for the Birdeye key of    *)
(* performTokenomicsAnalysis; C12_SocialKeysGiveNote is the same statement *)
(* for the LunarCrush and Twitter keys of performSocialSentimentAnalysis.  *)
(***************************************************************************)
Noted(note) == \E i \in DOMAIN report.notes : report.notes[i] = note
Indicated(risk) == \E i \in DOMAIN report.riskIndicators : report.riskIndicators[i] = risk

C12_MissingKeyGivesNote ==
    (Returned /\ birdeyeApiKey = "")
    => /\ ~Called("getBirdeyeOverview")
       /\ ~Indicated(RiskUnlockedLp)
       /\ Noted(NoteBirdeyeKey)

C12_SocialKeysGiveNote ==
    Returned
    => /\ ~apiKeys.lunarCrush => (~Called("getLunarCrushData") /\ Noted(NoteLunarCrushKey))
       /\ ~apiKeys.twitter => (~Called("getTwitterSentiment") /\ Noted(NoteTwitterKeys))

(***************************************************************************)
(* C14: with a non-empty pair list the Tiny LP flag is emitted exactly     *)
(* when the highest liquidity over all pairs, a missing liquidity counting *)
(* as 0, is below 20000 (looked at in the runs that go on past the         *)
(* liquidity section).                                                     *)
(***************************************************************************)
MaxLiquidity(ps) ==
    LET ls == {LiquidityUSD(ps[i]) : i \in DOMAIN ps}
    IN  CHOOSE l \in ls : \A k \in ls : k <= l

C14_TinyLpOnHighestLiquidity ==
    (Called("getDexPairs") /\ Len(pairs) > 0 /\ ~Thrown)
    => (Flagged(FlagTinyLp) <=> MaxLiquidity(pairs) < 20000)

(***************************************************************************)
(* C15: the riskScore of a returned report is min(100, sum of the deltas   *)
(* of the flags in flags), each occurrence counted with its fixed delta;   *)
(* before the cap the score is that sum, so that no delta is added without *)
(* its flag and no flag without its delta.                                 *)
(***************************************************************************)
ClaimedDelta(flag) ==
    CASE flag = FlagMint -> 30
      [] flag = FlagFreeze -> 20
      [] flag = FlagCreator -> 15
      [] flag = FlagTinyLp -> 25
      [] flag = FlagLpMintRisk -> 10
      [] flag = FlagNoLiquidity -> 30
      [] flag = FlagHigh -> 25
      [] flag = FlagModerate -> 10
      [] flag = FlagDumps -> 20
RECURSIVE ClaimedSum(_)
ClaimedSum(flags) ==
    IF flags = <<>> THEN 0 ELSE ClaimedDelta(Head(flags)) + ClaimedSum(Tail(flags))

C15_ScoreIsSumOfFlagDeltas ==
    /\ Returned => report.riskScore = Min(100, ClaimedSum(report.flags))
    /\ ~Returned => report.riskScore = ClaimedSum(report.flags)

C15_Witness ==
    /\ Returned
    /\ Flagged(FlagLpMintRisk) /\ Flagged(FlagModerate) /\ Flagged(FlagDumps)
    /\ report.riskScore = ClaimedSum(report.flags)
    /\ report.riskScore < 100
====
